---- MODULE Spec2Model ----
(***************************************************************************)
(* A model of pretty.traceback.formatter: the frame walker                 *)
(* (DefaultTracebackFormatter.extract_frames, walk_stack, walk_traceback), *)
(* the chain formatter (format_exception, format_exception_line) and the   *)
(* last-exception accessor (get_last_exception).                           *)
(*                                                                         *)
(* Python values are encoded as follows.  A reference to an exception or a *)
(* frame is a positive number (its identity) and None is 0.  An optional   *)
(* integer is a sequence: <<>> is None and <<n>> is the integer n.  A      *)
(* traceback is the sequence of the tb_frame of its nodes in tb_next       *)
(* order, so that None (no node) is <<>> and tb_next is Tail.              *)
(***************************************************************************)
EXTENDS Integers, Sequences, FiniteSets, TLC

\* Bounds of the model.
NumErrors == 2
MaxDepth == 3
MaxLimit == 2
MaxCalls == 2

None == 0
NoInt == <<>>
Int1(n) == <<n>>

Errors == 1..NumErrors
Frames == 1..MaxDepth

VARIABLES
    tracebacklimit, \* sys.tracebacklimit (NoInt when the attribute is unset)
    linecache,      \* file names linecache.lazycache has been called with
    gen,            \* the generator extract_frames returned to its caller
    excs,           \* the exception objects: e |-> its attributes
    last,           \* sys.last_type, last_value, last_traceback (<<>>: unset)
    got,            \* what the latest get_last_exception call gave its caller
    fpc,            \* "idle", "running", "done" or "raised": the format call
    fargs,          \* the arguments of the format call
    fstack,         \* the activations of format_exception, innermost last
    sets,           \* the set objects created for `seen` (a reference is an index)
    out,            \* the lines the call has yielded
    prev,           \* the lines the call before it yielded
    calls,          \* the number of format calls made
    shim,           \* the latest call of a traceback-module replacement
    file            \* the destination of the latest write_* call

envvars == <<tracebacklimit, linecache>>
lastvars == <<last, got>>
fvars == <<fpc, fargs, fstack, sets, out, prev, calls>>
iovars == <<shim, file>>
vars == <<envvars, gen, excs, lastvars, fvars, iovars>>

----------------------------------------------------------------------------
\* Frames and tracebacks.

\* frame.f_back: frame 1 is the outermost frame, frame f was called by f - 1.
f_back(f) == f - 1

\* frame.f_code.co_filename
co_filename(f) == IF f % 2 = 1 THEN "app.py" ELSE "lib.py"

Reverse(s) == [i \in 1..Len(s) |-> s[Len(s) + 1 - i]]

Range(a, b) == [i \in 1..(b - a + 1) |-> a + i - 1]

\* The frames walk_stack yields: the frame, then its callers (innermost first).
RECURSIVE walk_stack(_)
walk_stack(frame) ==
    IF frame = None THEN <<>> ELSE <<frame>> \o walk_stack(f_back(frame))

\* The frames walk_traceback yields: tb_frame of each node in tb_next order.
RECURSIVE walk_traceback(_)
walk_traceback(traceback) ==
    IF traceback = <<>> THEN <<>>
    ELSE <<Head(traceback)>> \o walk_traceback(Tail(traceback))

\* The objects extract_frames is called with.
FrameObj(f) == [kind |-> "frame", frame |-> f, items |-> <<>>, tuples |-> FALSE]
TracebackObj(tb) == [kind |-> "traceback", frame |-> None, items |-> tb, tuples |-> FALSE]
IterableObj(s, t) == [kind |-> "iterable", frame |-> None, items |-> s, tuples |-> t]
NoneObj == [kind |-> "none", frame |-> None, items |-> <<>>, tuples |-> FALSE]

\* A traceback holds the frames from where the exception was caught (a) to
\* where it was raised (b).
Tracebacks == {Range(a, b) : a \in Frames, b \in Frames} \ {<<>>}

Objs ==
    {FrameObj(f) : f \in Frames}
        \cup {TracebackObj(tb) : tb \in Tracebacks}
        \cup {IterableObj(s, t) : s \in Tracebacks \cup {<<>>}, t \in BOOLEAN}
        \cup {NoneObj}

Limits == {NoInt} \cup {Int1(n) : n \in (0 - MaxLimit)..MaxLimit}

\* Python's `a or b` on optional integers: a when a is truthy, else b.
Or(a, b) == IF a # NoInt /\ a[1] # 0 THEN a ELSE b

----------------------------------------------------------------------------
\* extract_frames, as the generator it is.  A generator is a record:
\*   pc      where its body stands ("idle": no generator exists)
\*   obj     the argument obj
\*   arg     the argument limit, as the caller passed it
\*   limit   the local limit: the argument, then the value line 687 binds
\*   mode    what the local `generator` iterates: "lazy" (walk_traceback or
\*           the caller's iterable), "list" (a materialised list or deque),
\*           "none" (None)
\*   lazy    elements the lazy source has not produced yet
\*   buf     elements of the materialised list or deque not iterated yet
\*   deque   contents of the collections.deque
\*   slice   elements itertools.islice may still take (NoInt: no islice)
\*   pulled  elements taken from the walker or the caller's iterable so far
\*   out     frames yielded so far
\*   err     the exception the body raised ("" if none)

IdleGen ==
    [pc |-> "idle", obj |-> NoneObj, arg |-> NoInt, limit |-> NoInt, mode |-> "none",
     lazy |-> <<>>, buf |-> <<>>, deque |-> <<>>, slice |-> NoInt,
     pulled |-> 0, out |-> <<>>, err |-> ""]

\* Calling the generator function runs none of its body.
NewGen(obj, limit) ==
    [IdleGen EXCEPT !.pc = "created", !.obj = obj, !.arg = limit, !.limit = limit]

\* Classify without the reversed() of line 681: a live stack stays
\* innermost first.
ClassifyUnreversed(g) ==
    IF g.obj.kind = "frame"
    THEN LET stack == walk_stack(g.obj.frame)
         IN  [g EXCEPT !.pc = "classified", !.mode = "list",
                       !.buf = stack, !.pulled = Len(stack)]
    ELSE IF g.obj.kind = "traceback"
    THEN [g EXCEPT !.pc = "classified", !.mode = "lazy",
                   !.lazy = walk_traceback(g.obj.items)]
    ELSE IF g.obj.kind = "iterable"
    THEN [g EXCEPT !.pc = "classified", !.mode = "lazy", !.lazy = g.obj.items]
    ELSE [g EXCEPT !.pc = "classified", !.mode = "none"]

\* Classify with the traceback walked to its end at once, as the live stack
\* is: list(self.walk_traceback(obj)).
ClassifyEager(g) ==
    IF g.obj.kind = "frame"
    THEN LET stack == walk_stack(g.obj.frame)
         IN  [g EXCEPT !.pc = "classified", !.mode = "list",
                       !.buf = Reverse(stack), !.pulled = Len(stack)]
    ELSE IF g.obj.kind = "traceback"
    THEN LET stack == walk_traceback(g.obj.items)
         IN  [g EXCEPT !.pc = "classified", !.mode = "list",
                       !.buf = stack, !.pulled = Len(stack)]
    ELSE IF g.obj.kind = "iterable"
    THEN [g EXCEPT !.pc = "classified", !.mode = "lazy", !.lazy = g.obj.items]
    ELSE [g EXCEPT !.pc = "classified", !.mode = "none"]

\* Lines 680-685: the choice of `generator`.
Classify(g) ==
    IF g.obj.kind = "frame"
    THEN LET stack == walk_stack(g.obj.frame)
         IN  [g EXCEPT !.pc = "classified", !.mode = "list",
                       !.buf = Reverse(stack), !.pulled = Len(stack)]
    ELSE IF g.obj.kind = "traceback"
    THEN [g EXCEPT !.pc = "classified", !.mode = "lazy",
                   !.lazy = walk_traceback(g.obj.items)]
    ELSE IF g.obj.kind = "iterable"
    THEN [g EXCEPT !.pc = "classified", !.mode = "lazy", !.lazy = g.obj.items]
    ELSE [g EXCEPT !.pc = "classified", !.mode = "none"]

\* Line 687 with its operands swapped: sys.tracebacklimit wins over the argument.
EffectiveLimitSwapped(limit, tbl) == Or(tbl, limit)

\* Line 687: limit = limit or getattr(sys, "tracebacklimit", None)
EffectiveLimit(limit, tbl) == Or(limit, tbl)

\* Lines 687-692: islice for a limit >= 0, a deque of maxlen -limit below 0.
\* Both constructors call iter() on their argument at once.
ApplyLimit(g, tbl) ==
    LET limit == EffectiveLimit(g.limit, tbl)
    IN  IF limit = NoInt
        THEN [g EXCEPT !.pc = "loop", !.limit = limit]
        ELSE IF g.mode = "none"
        THEN [g EXCEPT !.pc = "raised", !.limit = limit, !.err = "TypeError"]
        ELSE IF limit[1] >= 0
        THEN [g EXCEPT !.pc = "loop", !.limit = limit, !.slice = limit]
        ELSE [g EXCEPT !.pc = "fill", !.limit = limit]

HasNext(g) == IF g.mode = "lazy" THEN g.lazy # <<>> ELSE g.buf # <<>>
NextItem(g) == IF g.mode = "lazy" THEN Head(g.lazy) ELSE Head(g.buf)
\* The generator after its source handed out its next element.
Advance(g) ==
    IF g.mode = "lazy"
    THEN [g EXCEPT !.lazy = Tail(g.lazy), !.pulled = g.pulled + 1]
    ELSE [g EXCEPT !.buf = Tail(g.buf)]

\* A deque built without maxlen: nothing falls out.
DequeAppendUnbounded(d, x, n) == Append(d, x)

\* deque.append on a deque of maxlen n: the oldest element falls out.
DequeAppend(d, x, n) ==
    LET e == Append(d, x)
    IN  IF Len(e) > n THEN Tail(e) ELSE e

\* Line 692: collections.deque(generator, -limit) takes one more element,
\* or is complete and becomes `generator`.
Fill(g) ==
    IF HasNext(g)
    THEN [Advance(g) EXCEPT !.deque = DequeAppend(g.deque, NextItem(g), 0 - g.limit[1])]
    ELSE [g EXCEPT !.pc = "loop", !.mode = "list", !.buf = g.deque]

\* Lines 694-700: one turn of `for frame in generator`.
Loop(g) ==
    IF g.mode = "none"
    THEN [g EXCEPT !.pc = "raised", !.err = "TypeError"]
    ELSE IF g.slice = Int1(0) \/ ~HasNext(g)
    THEN [g EXCEPT !.pc = "done"]
    ELSE LET h == Advance(g)
         IN  [h EXCEPT !.out = Append(g.out, NextItem(g)),
                       !.slice = IF g.slice = NoInt THEN NoInt ELSE Int1(g.slice[1] - 1)]

\* One step of the generator's body.
StepGen(g, tbl) ==
    CASE g.pc = "created" -> Classify(g)
      [] g.pc = "classified" -> ApplyLimit(g, tbl)
      [] g.pc = "fill" -> Fill(g)
      [] g.pc = "loop" -> Loop(g)
      [] OTHER -> g

\* The generator run to its end, as list(extract_frames(obj, limit=limit)) runs it.
RECURSIVE RunGen(_, _)
RunGen(g, tbl) == IF g.pc \in {"done", "raised"} THEN g ELSE RunGen(StepGen(g, tbl), tbl)

extract_frames(obj, limit, tbl) == RunGen(NewGen(obj, limit), tbl)

\* linecache.lazycache(frame.f_code.co_filename, ...) for every yielded frame.
Lazycached(cache, frames) == cache \cup {co_filename(frames[i]) : i \in 1..Len(frames)}

----------------------------------------------------------------------------
\* The walker's operations.

ExtractCall ==
    /\ gen.pc = "idle"
    /\ \E obj \in Objs, limit \in Limits : gen' = NewGen(obj, limit)
    /\ UNCHANGED <<envvars, excs, iovars, lastvars, fvars>>

ExtractClassify ==
    /\ gen.pc = "created"
    /\ gen' = Classify(gen)
    /\ UNCHANGED <<envvars, excs, iovars, lastvars, fvars>>

ExtractLimit ==
    /\ gen.pc = "classified"
    /\ gen' = ApplyLimit(gen, tracebacklimit)
    /\ UNCHANGED <<envvars, excs, iovars, lastvars, fvars>>

ExtractFill ==
    /\ gen.pc = "fill"
    /\ gen' = Fill(gen)
    /\ UNCHANGED <<envvars, excs, iovars, lastvars, fvars>>

ExtractLoop ==
    /\ gen.pc = "loop"
    /\ gen' = Loop(gen)
    /\ linecache' = Lazycached(linecache, gen'.out)
    /\ UNCHANGED <<tracebacklimit, excs, iovars, lastvars, fvars>>

\* The caller drops the finished generator.
ExtractReturn ==
    /\ gen.pc \in {"done", "raised"}
    /\ gen' = IdleGen
    /\ UNCHANGED <<envvars, excs, iovars, lastvars, fvars>>

\* The program assigns or deletes sys.tracebacklimit.
SetTracebackLimit ==
    /\ gen.pc = "idle"
    /\ fpc # "running"
    /\ \E v \in Limits : tracebacklimit' = v
    /\ UNCHANGED <<linecache, gen, excs, iovars, lastvars, fvars>>

----------------------------------------------------------------------------
\* Exception objects.

\* An object passed as type, as _try_name and _try_unprintable read it: what
\* the lookup of __name__, of __module__ and of __class__.__qualname__ raises
\* ("" when it raises nothing) and what it returns when it does not raise.
TypeObj(name_raises, name, module_raises, module, qualname_raises, class_qualname) ==
    [name_raises |-> name_raises, name |-> name,
     module_raises |-> module_raises, module |-> module,
     qualname_raises |-> qualname_raises, class_qualname |-> class_qualname]

\* A class, and None where a class is expected.
Class(name, module) == TypeObj("", name, "", module, "", "type")
NoneValue == TypeObj("AttributeError", "", "AttributeError", "", "", "NoneType")

\* An exception as the formatter reads it: its class, what str(value) raises
\* and returns, what value.__class__.__qualname__ raises and returns, and its
\* __traceback__.
Kind(class, str_raises, str, qualname_raises, traceback) ==
    [class |-> class, str_raises |-> str_raises, str |-> str,
     qualname_raises |-> qualname_raises, class_qualname |-> class.name,
     traceback |-> traceback]

\* The exceptions the program raises.
ErrorKinds ==
    { Kind(Class("ValueError", "builtins"), "", "boom", "", <<1, 2>>),
      Kind(Class("KeyError", "builtins"), "", "", "", <<>>),
      Kind(Class("AppError", "pkg.errors"), "", "bad", "", <<>>),
      Kind(Class("Quiet", "__main__"), "", "", "", <<1>>) }

\* Exceptions whose __str__ raises, and whose __class__ raises as well.
UnprintableKinds ==
    { Kind(Class("BadStr", "__main__"), "RuntimeError", "", "", <<>>),
      Kind(Class("BadClass", "__main__"), "KeyError", "", "RuntimeError", <<>>) }

\* __cause__, __context__ and __suppress_context__ are free: the program may
\* assign them, so the cause/context graph may hold cycles.
ExcAttrs ==
    [cause : Errors \cup {None}, context : Errors \cup {None},
     suppress_context : BOOLEAN, kind : ErrorKinds]

class_of(e) == excs[e].kind.class
traceback_of(e) == excs[e].kind.traceback

\* (type, value, traceback) triples.
Triple(t, v, tb) == [type |-> t, value |-> v, traceback |-> tb]
NullTriple == Triple(NoneValue, None, <<>>)
\* sys.exc_info() while e is handled, and (type(e), e, e.__traceback__).
ExcInfo(e) == Triple(class_of(e), e, traceback_of(e))

----------------------------------------------------------------------------
\* The lines of a formatted exception.  A line is a record: text is the string
\* yielded; kind and of record which statement yielded it, for which value.

Line(text, kind, of) == [text |-> text, kind |-> kind, of |-> of]

cause_header == "\nThe above exception was the direct cause of the following exception:\n\n"
context_header == "\nDuring handling of the above exception, another exception occurred:\n\n"
traceback_header == "Traceback (most recent call last):\n"

_unprintable == "<unprintable object>"

\* What a call gives its caller: the exception it raises ("" for none) and
\* the value it returns.
Returns(ret) == [raised |-> "", ret |-> ret]
Raises(exception) == [raised |-> exception, ret |-> ""]

\* Lines 513-519: the bare except takes every failure of the format.
_try_unprintable(value) ==
    IF value.qualname_raises # ""
    THEN _unprintable
    ELSE "<unprintable " \o value.class_qualname \o " object>"

\* Lines 481-492.  Only AttributeError is caught at the __name__ lookup: with
\* another exception in flight the finally clause returns the unbound local
\* name, which raises UnboundLocalError.  __module__ is read in the else
\* clause, where the return of the finally clause drops whatever it raises.
_try_name(type) ==
    IF type.name_raises = "AttributeError"
    THEN Returns(_try_unprintable(type))
    ELSE IF type.name_raises # ""
    THEN Raises("UnboundLocalError")
    ELSE IF type.module_raises = "" /\ type.module \notin {"__main__", "builtins"}
    THEN Returns(type.module \o "." \o type.name)
    ELSE Returns(type.name)

\* Lines 502-508: str(value), or the placeholder when it raises; str(None)
\* is "None".
_try_str(value) ==
    IF value = None THEN "None"
    ELSE IF excs[value].kind.str_raises # "" THEN _try_unprintable(excs[value].kind)
    ELSE excs[value].kind.str

\* The line with the colon whether or not there is a message.
format_exception_line_colon(type, value) ==
    LET type_name == _try_name(type)
    IN  IF type_name.raised # "" THEN Raises(type_name.raised)
        ELSE Returns(<<type_name.ret \o ": " \o _try_str(value) \o "\n">>)

\* Lines 729-738.
format_exception_line(type, value) ==
    LET type_name == _try_name(type)
        value_str == _try_str(value)
    IN  IF type_name.raised # "" THEN Raises(type_name.raised)
        ELSE IF value = None \/ value_str = ""
        THEN Returns(<<type_name.ret \o "\n">>)
        ELSE Returns(<<type_name.ret \o ": " \o value_str \o "\n">>)

\* format_exception_only is abstract in src (lines 124-149); an implementation
\* yields the summary line format_exception_line builds.
format_exception_only(type, value) == format_exception_line(type, value)

\* format_frames is abstract in src (lines 175-198); an implementation renders
\* every frame it is given, here as one line each.
format_frames(frames, limit) ==
    [i \in 1..Len(frames) |->
        "  File \"" \o co_filename(frames[i]) \o "\", in frame " \o ToString(frames[i]) \o "\n"]

Lines(texts, kind, of) == [i \in 1..Len(texts) |-> Line(texts[i], kind, of)]

----------------------------------------------------------------------------
\* format_exception.  An activation is a record: the arguments type, value,
\* traceback, chain, limit and seen (a reference into sets, None by default)
\* and pc, the statement it stands at.

Activation(type, value, traceback, chain, limit, seen) ==
    [type |-> type, value |-> value, traceback |-> traceback, chain |-> chain,
     limit |-> limit, seen |-> seen, pc |-> "enter"]

Top == fstack[Len(fstack)]
SetTop(a) == [fstack EXCEPT ![Len(fstack)] = a]
Push(a, child) == Append(SetTop(a), child)

\* A default shared between calls: the set an earlier call has left behind.
SharedDefaultSeen(store) == IF store = <<>> THEN None ELSE Len(store)

\* The seen argument of a call that passes none (line 705: seen = None).
DefaultSeen(store) == None

\* Line 707: seen = seen or set().  A set is falsy when it is empty.
SeenOrNew(seen, store) ==
    IF seen # None /\ store[seen] # {}
    THEN [ref |-> seen, store |-> store]
    ELSE [ref |-> Len(store) + 1, store |-> Append(store, {})]

\* The conditions without the test of the seen set, and without the test of
\* __suppress_context__.
FollowsCauseUnseen(value, seenset) ==
    excs[value].cause # None
FollowsContextUnsuppressed(value, seenset) ==
    /\ excs[value].cause = None
    /\ excs[value].context # None
    /\ excs[value].context \notin seenset

\* The context condition without the test that there is no cause.
FollowsContextDespiteCause(value, seenset) ==
    /\ excs[value].context # None
    /\ ~excs[value].suppress_context
    /\ excs[value].context \notin seenset

\* Line 712, line 719: the conditions under which a predecessor is formatted.
FollowsCause(value, seenset) ==
    excs[value].cause # None /\ excs[value].cause \notin seenset
FollowsContext(value, seenset) ==
    /\ excs[value].cause = None
    /\ excs[value].context # None
    /\ ~excs[value].suppress_context
    /\ excs[value].context \notin seenset

\* The recursive call of line 713 or 720.
Recurse(a, e) == Activation(class_of(e), e, traceback_of(e), a.chain, a.limit, a.seen)

\* Lines 706-713.
FormatEnter ==
    /\ fpc = "running" /\ Top.pc = "enter"
    /\ IF Top.chain /\ Top.value # None
       THEN LET s == SeenOrNew(Top.seen, sets)
                store == [s.store EXCEPT ![s.ref] = @ \cup {Top.value}]
                a == [Top EXCEPT !.seen = s.ref]
            IN  /\ sets' = store
                /\ fstack' = IF FollowsCause(a.value, store[a.seen])
                             THEN Push([a EXCEPT !.pc = "cause_header"],
                                       Recurse(a, excs[a.value].cause))
                             ELSE SetTop([a EXCEPT !.pc = "context"])
       ELSE /\ fstack' = SetTop([Top EXCEPT !.pc = "traceback"])
            /\ sets' = sets
    /\ UNCHANGED <<envvars, gen, excs, iovars, lastvars, fpc, fargs, out, prev, calls>>

\* Line 714.
FormatCauseHeader ==
    /\ fpc = "running" /\ Top.pc = "cause_header"
    /\ out' = Append(out, Line(cause_header, "cause_header", Top.value))
    /\ fstack' = SetTop([Top EXCEPT !.pc = "context"])
    /\ UNCHANGED <<envvars, gen, excs, iovars, lastvars, fpc, fargs, sets, prev, calls>>

\* Lines 716-720.
FormatContext ==
    /\ fpc = "running" /\ Top.pc = "context"
    /\ fstack' = IF FollowsContext(Top.value, sets[Top.seen])
                 THEN Push([Top EXCEPT !.pc = "context_header"],
                           Recurse(Top, excs[Top.value].context))
                 ELSE SetTop([Top EXCEPT !.pc = "traceback"])
    /\ UNCHANGED <<envvars, gen, excs, iovars, lastvars, fpc, fargs, sets, out, prev, calls>>

\* Line 721.
FormatContextHeader ==
    /\ fpc = "running" /\ Top.pc = "context_header"
    /\ out' = Append(out, Line(context_header, "context_header", Top.value))
    /\ fstack' = SetTop([Top EXCEPT !.pc = "traceback"])
    /\ UNCHANGED <<envvars, gen, excs, iovars, lastvars, fpc, fargs, sets, prev, calls>>

\* Lines 723-725: extract_frames is called without a limit; the limit goes to
\* format_frames.
FormatTraceback ==
    /\ fpc = "running" /\ Top.pc = "traceback"
    /\ LET frames == IF Top.traceback # <<>>
                     THEN extract_frames(TracebackObj(Top.traceback), NoInt, tracebacklimit).out
                     ELSE <<>>
       IN  /\ out' = IF Top.traceback # <<>>
                     THEN out \o <<Line(traceback_header, "traceback_header", Top.value)>>
                              \o Lines(format_frames(frames, Top.limit), "frame", Top.value)
                     ELSE out
           /\ linecache' = Lazycached(linecache, frames)
    /\ fstack' = SetTop([Top EXCEPT !.pc = "only"])
    /\ UNCHANGED <<tracebacklimit, gen, excs, iovars, lastvars, fpc, fargs, sets, prev, calls>>

\* Line 727, and the return to the caller.
FormatOnly ==
    /\ fpc = "running" /\ Top.pc = "only"
    /\ LET only == format_exception_only(Top.type, Top.value)
       IN  IF only.raised # ""
           THEN /\ out' = out
                /\ fstack' = <<>>
                /\ fpc' = "raised"
           ELSE /\ out' = out \o Lines(only.ret, "summary", Top.value)
                /\ fstack' = SubSeq(fstack, 1, Len(fstack) - 1)
                /\ fpc' = IF Len(fstack) = 1 THEN "done" ELSE "running"
    /\ UNCHANGED <<envvars, gen, excs, iovars, lastvars, fargs, sets, prev, calls>>

\* The call format_exception(type, value, traceback, chain=chain, limit=limit).
StartFormat(args) ==
    /\ fpc' = "running"
    /\ fargs' = args
    /\ fstack' = <<Activation(args.type, args.value, args.traceback, args.chain,
                              args.limit, DefaultSeen(sets))>>
    /\ prev' = out
    /\ out' = <<>>
    /\ calls' = calls + 1

\* An object whose __name__ raises another exception than AttributeError.
BrokenType == TypeObj("RuntimeError", "Broken", "", "builtins", "", "Meta")

CallTriples ==
    {ExcInfo(e) : e \in Errors}
        \cup {NullTriple, Triple(Class("ValueError", "builtins"), None, <<>>),
              Triple(BrokenType, None, <<>>)}

FormatLimits == {NoInt, Int1(1)}

Args(t, chain, limit) ==
    [type |-> t.type, value |-> t.value, traceback |-> t.traceback,
     chain |-> chain, limit |-> limit]
NoArgs == Args(NullTriple, TRUE, NoInt)

FormatCall ==
    /\ fpc = "idle" /\ calls < MaxCalls
    /\ \E t \in CallTriples, chain \in BOOLEAN, limit \in FormatLimits :
          StartFormat(Args(t, chain, limit))
    /\ UNCHANGED <<envvars, gen, excs, iovars, lastvars, sets>>

\* The caller formats the same exception once more.
FormatAgain ==
    /\ fpc = "done" /\ calls < MaxCalls
    /\ StartFormat(fargs)
    /\ UNCHANGED <<envvars, gen, excs, iovars, lastvars, sets>>

----------------------------------------------------------------------------
\* The last-exception slot.

\* A reader that takes an unset slot for an empty triple.
get_last_exception_default(slot) ==
    IF slot = <<>>
    THEN [err |-> "", ret |-> NullTriple]
    ELSE [err |-> "", ret |-> slot[1]]

\* Lines 746-750.
get_last_exception(slot) ==
    IF slot = <<>>
    THEN [err |-> "ValueError", ret |-> NullTriple]
    ELSE [err |-> "", ret |-> slot[1]]

NoResult == [err |-> "", ret |-> NullTriple, called |-> FALSE]

\* The interpreter records an unhandled exception.
SetLast ==
    /\ fpc \in {"idle", "raised"}
    /\ \E e \in Errors : last' = <<ExcInfo(e)>>
    /\ UNCHANGED <<envvars, gen, excs, iovars, got, fvars>>

GetLastException ==
    /\ fpc \in {"idle", "raised"} /\ ~got.called
    /\ LET r == get_last_exception(last)
       IN  got' = [err |-> r.err, ret |-> r.ret, called |-> TRUE]
    /\ UNCHANGED <<envvars, gen, excs, iovars, last, fvars>>

\* The caller drops what it got.
DropLastException ==
    /\ got.called
    /\ got' = NoResult
    /\ UNCHANGED <<envvars, gen, excs, iovars, last, fvars>>

\* Lines 740-741: format_last_exception(chain=chain, limit=limit).
FormatLastCall ==
    /\ fpc \in {"idle", "raised"} /\ calls < MaxCalls /\ ~got.called
    /\ LET r == get_last_exception(last)
       IN  IF r.err # ""
           THEN /\ fpc' = "raised"
                /\ calls' = calls + 1
                /\ prev' = out
                /\ out' = <<>>
                /\ UNCHANGED <<fargs, fstack>>
           ELSE \E chain \in BOOLEAN, limit \in FormatLimits :
                    StartFormat(Args(r.ret, chain, limit))
    /\ UNCHANGED <<envvars, gen, excs, iovars, lastvars, sets>>

----------------------------------------------------------------------------
\* The specifications.

----------------------------------------------------------------------------
\* The replacements of the traceback module's functions.

\* An argument left at its default _sentinel, and an argument that is given.
_sentinel == <<>>
Given(x) == <<x>>

\* A test that asks for both: it raises when either is left out.
_extract_value_traceback_both(type, value, traceback) ==
    IF (value = _sentinel) \/ (traceback = _sentinel)
    THEN Raises("ValueError")
    ELSE Returns([value |-> value[1], traceback |-> traceback[1]])

\* Lines 547-556.  type is read only when neither value nor traceback is
\* given; it is an exception or None.
_extract_value_traceback(type, value, traceback) ==
    IF (value = _sentinel) # (traceback = _sentinel)
    THEN Raises("ValueError")
    ELSE IF value = _sentinel
    THEN IF type = None
         THEN Returns([value |-> None, traceback |-> <<>>])
         ELSE Returns([value |-> type, traceback |-> traceback_of(type)])
    ELSE Returns([value |-> value[1], traceback |-> traceback[1]])

\* shim: op the function called, exc, value and tb its arguments, pc "idle",
\* "formatting" or "returned", extracted what _extract_value_traceback gave,
\* by "engine" or "platform": whose result the caller was given, ret the lines.
ShimCall(op, exc, value, tb, pc, extracted, by, ret) ==
    [op |-> op, exc |-> exc, value |-> value, tb |-> tb, pc |-> pc,
     extracted |-> extracted, by |-> by, ret |-> ret]
NoShim == ShimCall("", None, _sentinel, _sentinel, "idle", Returns(""), "", <<>>)

\* file: op the write_* method called, probe how the destination answers
\* isatty, tty the value the method bound, pc "idle", "formatting", "written",
\* "probe_raised" or "raised", lines the lines formatted, writes the strings
\* file.write was called with.
FileCall(op, probe, tty, pc, lines, writes) ==
    [op |-> op, probe |-> probe, tty |-> tty, pc |-> pc, lines |-> lines, writes |-> writes]
NoFile == FileCall("", "", FALSE, "idle", <<>>, <<>>)

ShimExcs == Errors \cup {None}
ShimValues == {_sentinel} \cup {Given(v) : v \in Errors \cup {None}}
ShimTracebacks == {_sentinel, Given(<<>>), Given(<<1>>)}

\* A direct call _extract_value_traceback(exc, value, tb).
ExtractValueTraceback ==
    /\ shim.pc = "idle" /\ fpc = "idle"
    /\ \E exc \in ShimExcs, value \in ShimValues, tb \in ShimTracebacks :
          shim' = ShimCall("_extract_value_traceback", exc, value, tb, "returned",
                           _extract_value_traceback(exc, value, tb), "", <<>>)
    /\ UNCHANGED <<envvars, gen, excs, lastvars, fvars, file>>

\* type(_value): the class of an exception, NoneType for None.
type_of(value) == IF value = None THEN Class("NoneType", "builtins") ELSE class_of(value)

\* utils.wrap, lines 144-162 of utils.py: the result of the replacement, or
\* the call of the replaced function when the replacement raises an
\* Exception.  What the replaced function of the platform returns is not
\* part of the model.
wrap(result) ==
    IF result.raised # ""
    THEN [by |-> "platform", ret |-> <<>>]
    ELSE [by |-> "engine", ret |-> result.ret]

Texts(lines) == [i \in DOMAIN lines |-> lines[i].text]

\* Lines 574-577: _format_exception(exc, value, tb, chain=chain).
FormatExceptionShim ==
    /\ shim.pc = "idle" /\ fpc = "idle"
    /\ \E exc \in ShimExcs, value \in ShimValues, tb \in ShimTracebacks, chain \in BOOLEAN :
          LET r == _extract_value_traceback(exc, value, tb)
          IN  IF r.raised # ""
              THEN /\ shim' = ShimCall("_format_exception", exc, value, tb, "returned",
                                       r, wrap(r).by, wrap(r).ret)
                   /\ UNCHANGED fvars
              ELSE /\ shim' = ShimCall("_format_exception", exc, value, tb, "formatting",
                                       r, "", <<>>)
                   /\ StartFormat(Args(Triple(type_of(r.ret.value), r.ret.value,
                                              r.ret.traceback), chain, NoInt))
                   /\ sets' = sets
    /\ UNCHANGED <<envvars, gen, excs, lastvars, file>>

\* Line 577: list(...) has run the generator to its end; wrap returns.
ShimReturn ==
    /\ shim.pc = "formatting" /\ fpc \in {"done", "raised"}
    /\ LET w == wrap(IF fpc = "raised" THEN Raises("UnboundLocalError")
                     ELSE Returns(Texts(out)))
       IN  shim' = [shim EXCEPT !.pc = "returned", !.by = w.by, !.ret = w.ret]
    /\ UNCHANGED <<envvars, gen, excs, lastvars, fvars, file>>

\* Lines 579-582: _format_exception_only(exc, value).
FormatExceptionOnlyShim ==
    /\ shim.pc = "idle" /\ fpc = "idle"
    /\ \E exc \in ShimExcs, value \in ShimValues :
          LET r == _extract_value_traceback(exc, value, Given(<<>>))
              only == IF r.raised # "" THEN r
                      ELSE format_exception_only(type_of(r.ret.value), r.ret.value)
          IN  shim' = ShimCall("_format_exception_only", exc, value, Given(<<>>), "returned",
                               r, wrap(only).by, wrap(only).ret)
    /\ UNCHANGED <<envvars, gen, excs, lastvars, fvars, file>>

----------------------------------------------------------------------------
\* The write_* methods.

\* A destination: a terminal, a plain file, an object without isatty, one
\* whose isatty raises AttributeError, and a closed file, whose isatty raises
\* ValueError.
Probes == {"tty", "file", "no_isatty", "isatty_attribute_error", "closed"}

\* Lines 385-388 (and 412-415, 433-436, 454-457, 474-477): try file.isatty(),
\* except AttributeError.
isatty_probe(probe) ==
    IF probe = "tty" THEN Returns(TRUE)
    ELSE IF probe = "file" THEN Returns(FALSE)
    ELSE IF probe \in {"no_isatty", "isatty_attribute_error"} THEN Returns(FALSE)
    ELSE Raises("ValueError")

\* "".join(lines)
RECURSIVE Join(_)
Join(texts) == IF texts = <<>> THEN "" ELSE Head(texts) \o Join(Tail(texts))

\* A write_* method that formats with format_exception: the probe, then the
\* call whose lines are joined.
WriteStart(op, probe, triple, chain) ==
    LET p == isatty_probe(probe)
    IN  IF p.raised # ""
        THEN /\ file' = FileCall(op, probe, FALSE, "probe_raised", <<>>, <<>>)
             /\ UNCHANGED fvars
        ELSE /\ file' = FileCall(op, probe, p.ret, "formatting", <<>>, <<>>)
             /\ StartFormat(Args(triple, chain, NoInt))
             /\ sets' = sets

\* A write_* method whose lines are formatted in one call.
WriteAtOnce(op, probe, result) ==
    LET p == isatty_probe(probe)
    IN  file' = IF p.raised # "" THEN FileCall(op, probe, FALSE, "probe_raised", <<>>, <<>>)
                ELSE IF result.raised # "" THEN FileCall(op, probe, p.ret, "raised", <<>>, <<>>)
                ELSE FileCall(op, probe, p.ret, "written", result.ret, <<Join(result.ret)>>)

\* Lines 392-417.
WriteException ==
    /\ file.pc = "idle" /\ fpc = "idle"
    /\ \E probe \in Probes, t \in CallTriples, chain \in BOOLEAN :
          WriteStart("write_exception", probe, t, chain)
    /\ UNCHANGED <<envvars, gen, excs, lastvars, shim>>

\* Lines 371-390: sys.exc_info() is the exception being handled, if any.
WriteCurrentException ==
    /\ file.pc = "idle" /\ fpc = "idle"
    /\ \E probe \in Probes, t \in {ExcInfo(e) : e \in Errors} \cup {NullTriple} :
          WriteStart("write_current_exception", probe, t, TRUE)
    /\ UNCHANGED <<envvars, gen, excs, lastvars, shim>>

\* Lines 440-459.
WriteLastException ==
    /\ file.pc = "idle" /\ fpc = "idle"
    /\ \E probe \in Probes :
          LET r == get_last_exception(last)
          IN  IF r.err # "" /\ isatty_probe(probe).raised = ""
              THEN /\ file' = FileCall("write_last_exception", probe,
                                       isatty_probe(probe).ret, "raised", <<>>, <<>>)
                   /\ UNCHANGED fvars
              ELSE WriteStart("write_last_exception", probe, r.ret, TRUE)
    /\ UNCHANGED <<envvars, gen, excs, lastvars, shim>>

\* Line 417: the lines are joined and written in one call of file.write; an
\* exception of the formatting leaves the method.
WriteReturn ==
    /\ file.pc = "formatting" /\ fpc \in {"done", "raised"}
    /\ file' = IF fpc = "raised" THEN [file EXCEPT !.pc = "raised"]
                ELSE [file EXCEPT !.pc = "written", !.lines = Texts(out),
                                  !.writes = Append(file.writes, Join(Texts(out)))]
    /\ UNCHANGED <<envvars, gen, excs, lastvars, fvars, shim>>

\* Lines 419-438.
WriteExceptionOnly ==
    /\ file.pc = "idle" /\ fpc = "idle"
    /\ \E probe \in Probes, t \in CallTriples :
          WriteAtOnce("write_exception_only", probe, format_exception_only(t.type, t.value))
    /\ UNCHANGED <<envvars, gen, excs, lastvars, fvars, shim>>

\* Lines 461-479.
WriteFrames ==
    /\ file.pc = "idle" /\ fpc = "idle"
    /\ \E probe \in Probes, frames \in {<<>>, <<1>>, <<1, 2>>} :
          WriteAtOnce("write_frames", probe, Returns(format_frames(frames, NoInt)))
    /\ UNCHANGED <<envvars, gen, excs, lastvars, fvars, shim>>

InitCommon ==
    /\ tracebacklimit = NoInt
    /\ linecache = {}
    /\ gen = IdleGen
    /\ last = <<>>
    /\ got = NoResult
    /\ fpc = "idle"
    /\ fargs = NoArgs
    /\ fstack = <<>>
    /\ sets = <<>>
    /\ out = <<>>
    /\ prev = <<>>
    /\ calls = 0
    /\ shim = NoShim
    /\ file = NoFile

\* The program has raised its exceptions.
Init == InitCommon /\ excs \in [Errors -> ExcAttrs]

\* The program has raised no exception yet.
InitExtract == InitCommon /\ excs = <<>>

FormatStep ==
    \/ FormatEnter
    \/ FormatCauseHeader
    \/ FormatContext
    \/ FormatContextHeader
    \/ FormatTraceback
    \/ FormatOnly

Next ==
    \/ FormatCall
    \/ FormatAgain
    \/ FormatStep

Spec == Init /\ [][Next]_vars

NextLast ==
    \/ SetLast
    \/ GetLastException
    \/ DropLastException
    \/ FormatLastCall
    \/ FormatStep

SpecLast == Init /\ [][NextLast]_vars

\* The objects a caller passes as type: classes and other objects whose
\* lookups raise, and None.
LineTypes ==
    { TypeObj(nr, "Broken", mr, m, qr, "Meta") :
          nr \in {"", "AttributeError", "RuntimeError"}, mr \in {"", "RuntimeError"},
          m \in {"builtins", "pkg.errors"}, qr \in {"", "RuntimeError"} }
        \cup {NoneValue}

\* The program has raised exceptions, some of them unprintable.
InitLine ==
    /\ InitCommon
    /\ excs \in [Errors -> [cause : {None}, context : {None}, suppress_context : {FALSE},
                            kind : ErrorKinds \cup UnprintableKinds]]

\* Lines 729-738: list(format_exception_line(type, value)).
FormatLineCall ==
    /\ fpc = "idle"
    /\ \E type \in LineTypes, value \in Errors \cup {None} :
          LET line == format_exception_line(type, value)
          IN  /\ fargs' = Args(Triple(type, value, <<>>), FALSE, NoInt)
              /\ fpc' = IF line.raised # "" THEN "raised" ELSE "done"
              /\ out' = IF line.raised # "" THEN <<>> ELSE Lines(line.ret, "summary", value)
    /\ calls' = calls + 1
    /\ UNCHANGED <<envvars, gen, excs, iovars, lastvars, fstack, sets, prev>>

NextLine == FormatLineCall

SpecLine == InitLine /\ [][NextLine]_vars

\* The program has raised its exceptions, all of them printable.
InitShim ==
    /\ InitCommon
    /\ excs \in [Errors -> [cause : Errors \cup {None}, context : Errors \cup {None},
                            suppress_context : {FALSE},
                            kind : {k \in ErrorKinds : k.class.module = "builtins"}]]

NextShim ==
    \/ ExtractValueTraceback
    \/ FormatExceptionShim
    \/ FormatExceptionOnlyShim
    \/ ShimReturn
    \/ FormatStep

SpecShim == InitShim /\ [][NextShim]_vars

NextWrite ==
    \/ SetLast
    \/ WriteException
    \/ WriteCurrentException
    \/ WriteLastException
    \/ WriteExceptionOnly
    \/ WriteFrames
    \/ WriteReturn
    \/ FormatStep

SpecWrite == InitShim /\ [][NextWrite]_vars

NextExtract ==
    \/ ExtractCall
    \/ ExtractClassify
    \/ ExtractLimit
    \/ ExtractFill
    \/ ExtractLoop
    \/ ExtractReturn
    \/ SetTracebackLimit

SpecExtract == InitExtract /\ [][NextExtract]_vars
----------------------------------------------------------------------------
\* Properties of the walker (SpecExtract).

Min(a, b) == IF a < b THEN a ELSE b

\* The stack an object stands for, outermost frame first: a live frame f
\* stands for frames 1..f, a traceback or an iterable for its elements.
LogicalStack(obj) ==
    IF obj.kind = "frame" THEN Range(1, obj.frame) ELSE obj.items

FirstN(s, n) == SubSeq(s, 1, Min(n, Len(s)))
LastN(s, n) == SubSeq(s, Len(s) - Min(n, Len(s)) + 1, Len(s))

\* C3 as stated: with limit=None extract_frames yields every frame of the
\* stack, outermost first, for a live frame and for a traceback, and the same
\* frames for the two forms of one stack.
C3_UnlimitedYieldsAll_Original ==
    (gen.pc = "done" /\ gen.arg = NoInt /\ gen.obj.kind \in {"frame", "traceback"})
        => /\ gen.out = LogicalStack(gen.obj)
           /\ gen.out = extract_frames(TracebackObj(LogicalStack(gen.obj)),
                                        gen.arg, tracebacklimit).out

\* C3 amended: the same, while sys.tracebacklimit is unset (or None); a set
\* sys.tracebacklimit is the limit of a call that passes none.
C3_UnlimitedYieldsAll ==
    (gen.pc = "done" /\ gen.arg = NoInt /\ tracebacklimit = NoInt
            /\ gen.obj.kind \in {"frame", "traceback"})
        => /\ gen.out = LogicalStack(gen.obj)
           /\ gen.out = extract_frames(TracebackObj(LogicalStack(gen.obj)),
                                        gen.arg, tracebacklimit).out

C3_Witness ==
    /\ gen.pc = "done" /\ gen.arg = NoInt /\ tracebacklimit = NoInt
    /\ gen.obj.kind = "frame" /\ gen.obj.frame >= 2
    /\ gen.out = Range(1, gen.obj.frame)

\* C4: a limit N >= 1 yields exactly the first min(N, total) frames of the
\* unlimited outermost-first sequence, in order.
C4_PositiveLimitKeepsFirst ==
    (gen.pc = "done" /\ gen.arg # NoInt /\ gen.arg[1] >= 1)
        => gen.out = FirstN(LogicalStack(gen.obj), gen.arg[1])

C4_Witness ==
    /\ gen.pc = "done" /\ gen.arg = Int1(2) /\ tracebacklimit = Int1(1)
    /\ gen.obj.kind = "traceback" /\ Len(gen.obj.items) = 3
    /\ Len(gen.out) = 2

\* C5: a limit of exactly 0 yields no frame, whatever the source.
C5_ZeroLimitYieldsNothing ==
    gen.arg = Int1(0) => gen.out = <<>>

\* C6: a limit -N yields exactly the last min(N, total) frames in their
\* order; the deque never holds more than N frames and nothing is yielded
\* before the whole source has been traversed.
C6_NegativeLimitKeepsLast ==
    (gen.arg # NoInt /\ gen.arg[1] < 0)
        => LET n == 0 - gen.arg[1]
               full == LogicalStack(gen.obj)
           IN  /\ Len(gen.deque) <= n
               /\ gen.out # <<>> => gen.pulled = Len(full)
               /\ gen.pc = "done" => gen.out = LastN(full, n)

C6_Witness ==
    /\ gen.pc = "done" /\ gen.arg = Int1(0 - 2)
    /\ gen.obj.kind = "traceback" /\ gen.obj.items = <<1, 2, 3>>
    /\ gen.out = <<2, 3>> /\ gen.pulled = 3

\* C7: an absent (None) or empty source yields no frame and raises nothing,
\* whatever the limit.
C7_AbsentSourceYieldsNothing ==
    (gen.pc # "idle" /\ (gen.obj.kind = "none" \/ LogicalStack(gen.obj) = <<>>))
        => gen.pc # "raised" /\ gen.out = <<>>

\* C15: with a limit N >= 1 and a traceback or a lazy sequence of frames,
\* extract_frames takes at most N elements from its source, however long the
\* source is, and yields each frame in the step that takes it from the source.
C15_StreamingTruncation ==
    /\ []((gen.arg # NoInt /\ gen.arg[1] >= 1 /\ gen.obj.kind \in {"traceback", "iterable"})
            => /\ gen.pulled <= gen.arg[1]
               /\ gen.pulled = Len(gen.out))
    /\ [][(gen.arg # NoInt /\ gen.arg[1] >= 1 /\ gen.obj.kind \in {"traceback", "iterable"}
                /\ gen'.pc # "idle")
            => /\ gen'.pulled <= gen.pulled + 1
               /\ Len(gen'.out) = Len(gen.out) + (gen'.pulled - gen.pulled)]_vars

C15_Witness ==
    /\ gen.pc = "done" /\ gen.arg = Int1(1)
    /\ gen.obj.kind = "traceback" /\ Len(gen.obj.items) = 3
    /\ gen.pulled = 1 /\ gen.out = <<1>>

----------------------------------------------------------------------------
\* Properties of the chain formatter (Spec).

Indices(kinds) == {i \in DOMAIN out : out[i].kind \in kinds}
Headers == {"cause_header", "context_header"}

\* The cause/context graph: the exceptions one link away from e, and the
\* exceptions any number of links away from those of S.
LinksOf(e) == {excs[e].cause, excs[e].context} \ {None}
RECURSIVE Closure(_, _)
Closure(S, fuel) ==
    IF fuel = 0 THEN S ELSE Closure(S \cup UNION {LinksOf(e) : e \in S}, fuel - 1)
HasCycle(root) ==
    \E e \in Closure({root}, NumErrors) : e \in Closure(LinksOf(e), NumErrors)

\* The call under way, or just finished, follows the chain of an exception
\* whose graph holds a cycle.
CyclicCall ==
    /\ fpc \in {"running", "done"}
    /\ fargs.chain /\ fargs.value # None
    /\ HasCycle(fargs.value)

\* The statements an activation at pc has left, and the measure of a call:
\* the statements left on the stack, and a full activation for every
\* exception that is neither seen nor being formatted.
Rank(pc) ==
    CASE pc = "enter" -> 6
      [] pc = "cause_header" -> 5
      [] pc = "context" -> 4
      [] pc = "context_header" -> 3
      [] pc = "traceback" -> 2
      [] pc = "only" -> 1
RECURSIVE SumRanks(_)
SumRanks(stack) == IF stack = <<>> THEN 0 ELSE Rank(Head(stack).pc) + SumRanks(Tail(stack))
SeenNow == UNION {sets[fstack[i].seen] : i \in {j \in DOMAIN fstack : fstack[j].seen # None}}
OnStack == {fstack[i].value : i \in DOMAIN fstack}
Measure == SumRanks(fstack) + 7 * Cardinality(Errors \ (SeenNow \cup OnStack))

RenderedAtMostOnce ==
    \A e \in Errors :
        Cardinality({i \in Indices({"summary"}) : out[i].of = e}) <= 1

\* A header directly follows the summary of the exception its link leads to,
\* which is another exception than the one the header belongs to.
HeaderFollowsFreshAncestor ==
    \A i \in Indices(Headers) :
        /\ i > 1
        /\ out[i - 1].kind = "summary"
        /\ out[i - 1].of # out[i].of
        /\ out[i - 1].of = IF out[i].kind = "cause_header"
                           THEN excs[out[i].of].cause
                           ELSE excs[out[i].of].context
        /\ \A j \in Indices({"summary"}) : j < i => out[j].of # out[i].of

\* A running call can take a step: its innermost activation stands at a
\* statement, which is all the guard of that statement's action asks for.
CanStep == fstack # <<>> /\ Top.pc \in {"enter", "cause_header", "context",
                                        "context_header", "traceback", "only"}

\* C1: on a cause/context graph that holds a cycle, format_exception with
\* chain=True terminates (every step of the call lowers Measure, and a step
\* is possible until the call is done), renders every exception at most
\* once, and emits no header for a link to an exception already seen.
C1_CyclesTerminateRenderOnce ==
    /\ [](CyclicCall => /\ RenderedAtMostOnce
                        /\ HeaderFollowsFreshAncestor
                        /\ fpc = "running" => CanStep)
    /\ [][(CyclicCall /\ fpc = "running" /\ fpc' = "running") => Measure' < Measure]_vars

\* Two exceptions that are each other's cause, formatted: two blocks, one header.
C1_Witness ==
    /\ fpc = "done" /\ fargs.chain /\ fargs.value = 1
    /\ excs[1].cause = 2 /\ excs[2].cause = 1
    /\ Cardinality(Indices({"summary"})) = 2
    /\ Cardinality(Indices(Headers)) = 1

\* The link format_exception follows from e, if any.
Followed(e) ==
    IF excs[e].cause # None
    THEN [to |-> excs[e].cause, kind |-> "cause_header"]
    ELSE IF excs[e].context # None /\ ~excs[e].suppress_context
    THEN [to |-> excs[e].context, kind |-> "context_header"]
    ELSE [to |-> None, kind |-> ""]
RECURSIVE ChainOf(_, _)
ChainOf(e, fuel) ==
    IF e = None \/ fuel = 0 THEN <<>> ELSE <<e>> \o ChainOf(Followed(e).to, fuel - 1)
Acyclic(root) == Len(ChainOf(root, NumErrors + 1)) <= NumErrors

Mark(kind, of) == [kind |-> kind, of |-> of]
\* The output of a chain without its frame lines: the ancestors, the header
\* of the link, the trace header if e has a trace, the summary.
RECURSIVE ExpectedFrom(_, _, _)
ExpectedFrom(e, tb, fuel) ==
    LET l == Followed(e)
    IN  (IF l.to # None /\ fuel > 0
         THEN ExpectedFrom(l.to, traceback_of(l.to), fuel - 1) \o <<Mark(l.kind, e)>>
         ELSE <<>>)
        \o (IF tb # <<>> THEN <<Mark("traceback_header", e)>> ELSE <<>>)
        \o <<Mark("summary", e)>>
NotFrame(l) == l.kind # "frame"
IsSummary(l) == l.kind = "summary"
Skeleton == LET s == SelectSeq(out, NotFrame) IN [i \in DOMAIN s |-> Mark(s[i].kind, s[i].of)]
Summaries == LET s == SelectSeq(out, IsSummary) IN [i \in DOMAIN s |-> s[i].of]

\* C2: an acyclic chain of k exceptions gives k blocks, oldest ancestor first,
\* and k-1 headers, each after the whole rendering of the ancestor it
\* introduces and before the descendant's trace header and summary, the
\* cause header for a cause link and the context header for a context link.
C2_AcyclicChainOldestFirst ==
    (fpc = "done" /\ fargs.chain /\ fargs.value # None /\ Acyclic(fargs.value))
        => LET chain == ChainOf(fargs.value, NumErrors)
           IN  /\ Summaries = Reverse(chain)
               /\ Cardinality(Indices(Headers)) = Len(chain) - 1
               /\ Skeleton = ExpectedFrom(fargs.value, fargs.traceback, NumErrors)
               /\ \A i \in Indices({"cause_header"}) : out[i].text = cause_header
               /\ \A i \in Indices({"context_header"}) : out[i].text = context_header

C2_Witness ==
    /\ fpc = "done" /\ fargs.chain /\ fargs.value = 1
    /\ excs[1].cause = None /\ excs[1].context = 2 /\ ~excs[1].suppress_context
    /\ excs[2].cause = None /\ excs[2].context = None
    /\ Summaries = <<2, 1>>
    /\ Cardinality(Indices({"context_header"})) = 1

\* C8: a second format_exception call on the same exception with the same
\* (chain, limit) yields the same lines; a call starts without a seen set,
\* and every activation of one call holds the one set that call created.
C8_FormatIsIdempotent ==
    /\ (fpc = "done" /\ calls >= 2) => out = prev
    /\ (fstack # <<>> /\ fstack[1].pc = "enter") => fstack[1].seen = None
    /\ \A i \in DOMAIN fstack :
          /\ i >= 2 => (fstack[i].seen # None /\ fstack[i].seen = fstack[1].seen)
          /\ fstack[i].seen # None => fstack[i].seen = Len(sets)

C8_Witness ==
    /\ fpc = "done" /\ calls = 2 /\ fargs.chain /\ fargs.value # None
    /\ Cardinality(Indices({"summary"})) = 2
    /\ Len(sets) = 2
    /\ out = prev

\* C9: the last line format_exception emits is the summary line of its
\* (type, value): "{TypeName}: {message}\n" when str(value) is not empty,
\* "{TypeName}\n" when it is empty or the value is None.
C9_LastLineIsSummary ==
    fpc = "done"
        => LET l == out[Len(out)]
               type_name == _try_name(fargs.type).ret
               message == IF fargs.value = None THEN "" ELSE excs[fargs.value].kind.str
           IN  /\ l.kind = "summary" /\ l.of = fargs.value
               /\ l.text = IF message = ""
                            THEN type_name \o "\n"
                            ELSE type_name \o ": " \o message \o "\n"

C9_Witness ==
    /\ fpc = "done" /\ fargs.value # None
    /\ excs[fargs.value].kind.str = ""
    /\ Len(out) >= 3
    /\ out[Len(out)].text = "KeyError\n"

\* The exceptions seen by the call of activation a, and a step that starts
\* the rendering of a predecessor of the exception on top.
SeenBy(a) == IF a.seen = None THEN {} ELSE sets[a.seen]
StartsPredecessor == fpc = "running" /\ fpc' = "running" /\ Len(fstack') = Len(fstack) + 1
HeadersOf(e) == {i \in Indices(Headers) : out[i].of = e}

\* C13: while E is formatted a predecessor is rendered exactly when chain is
\* true, E is not None and either E has an unseen cause (the cause, then the
\* cause header) or E has no cause and an unseen, unsuppressed context (the
\* context, then the context header); otherwise E gets no predecessor and
\* no header; never the context when E has a cause, never two headers.
C13_PredecessorConditions ==
    /\ [][(fpc = "running" /\ Top.pc = "enter")
            => LET E == Top.value
                   cause == excs[E].cause
               IN  /\ StartsPredecessor
                        <=> (Top.chain /\ E # None /\ cause # None
                                /\ cause \notin SeenBy(Top) \cup {E})
                   /\ StartsPredecessor
                        => /\ fstack'[Len(fstack')].value = cause
                           /\ fstack'[Len(fstack)].pc = "cause_header"]_vars
    /\ [][(fpc = "running" /\ Top.pc = "context")
            => LET E == Top.value
                   context == excs[E].context
               IN  /\ StartsPredecessor
                        <=> (excs[E].cause = None /\ context # None
                                /\ ~excs[E].suppress_context /\ context \notin SeenBy(Top))
                   /\ StartsPredecessor
                        => /\ fstack'[Len(fstack')].value = context
                           /\ fstack'[Len(fstack)].pc = "context_header"]_vars
    /\ [][(fpc = "running" /\ Top.pc \notin {"enter", "context"}) => ~StartsPredecessor]_vars
    /\ [](\A e \in Errors :
            /\ Cardinality(HeadersOf(e)) <= 1
            /\ \A i \in HeadersOf(e) :
                  /\ fargs.chain
                  /\ i > 1 /\ out[i - 1].kind = "summary"
                  /\ out[i].kind = "cause_header" => out[i - 1].of = excs[e].cause
                  /\ out[i].kind = "context_header"
                        => /\ excs[e].cause = None /\ ~excs[e].suppress_context
                           /\ out[i - 1].of = excs[e].context)

\* An exception that is its own cause and has an unseen context: neither is
\* rendered.
C13_Witness ==
    /\ fpc = "done" /\ fargs.chain /\ fargs.value = 1
    /\ excs[1].cause = 1 /\ excs[1].context = 2 /\ ~excs[1].suppress_context
    /\ Summaries = <<1>>
    /\ Indices(Headers) = {}

\* The trace an exception is rendered with, and the texts of its frame lines.
TraceOf(e) == IF e = fargs.value THEN fargs.traceback ELSE traceback_of(e)
FrameTexts(e) ==
    LET OfE(l) == l.kind = "frame" /\ l.of = e
    IN  Texts(SelectSeq(out, OfE))
Rendered == {out[i].of : i \in Indices({"summary"})}

\* C14: every exception E rendered by format_exception with limit L gets the
\* trace header exactly when it has a trace, and its frames are the frames
\* extract_frames(E.trace, limit=L) yields, so at most |L| of them.
C14_FramesWithinLimit ==
    fpc = "done"
        => \A e \in Rendered :
              LET tb == TraceOf(e)
                  L == fargs.limit
                  frames == IF tb = <<>> THEN <<>>
                            ELSE extract_frames(TracebackObj(tb), L, tracebacklimit).out
              IN  /\ (\E i \in Indices({"traceback_header"}) : out[i].of = e) <=> tb # <<>>
                  /\ FrameTexts(e) = format_frames(frames, L)
                  /\ L # NoInt => Len(FrameTexts(e)) <= (IF L[1] < 0 THEN 0 - L[1] ELSE L[1])

----------------------------------------------------------------------------
\* Properties of the summary line (SpecLine).

\* The type name with the placeholder in the place of a name that cannot be
\* read, and the message with the placeholder in the place of a str(value)
\* that raises.
NamePart(type) ==
    IF type.name_raises # "" THEN _try_unprintable(type) ELSE _try_name(type).ret
MessagePart(value) ==
    IF value = None \/ _try_str(value) = "" THEN "\n" ELSE ": " \o _try_str(value) \o "\n"

\* C11: for every type and value, whatever their name, module and str
\* lookups raise, format_exception_line raises nothing and yields one
\* summary line, with the placeholder for the part that failed.
C11_SummaryNeverAborts ==
    fpc \in {"done", "raised"}
        => /\ fpc = "done"
           /\ Len(out) = 1
           /\ out[1].text = NamePart(fargs.type) \o MessagePart(fargs.value)

----------------------------------------------------------------------------
\* Properties of the replacements of the traceback module (SpecShim).

\* C12: _extract_value_traceback raises ValueError exactly when one of value
\* and traceback is given and the other is not; with both given it returns
\* them; with neither given it returns (exc, exc.__traceback__), or
\* (None, None) when exc is None.
C12_BothOrNeither ==
    shim.op \in {"_extract_value_traceback", "_format_exception"}
        => LET r == shim.extracted
               one == (shim.value = _sentinel) # (shim.tb = _sentinel)
           IN  /\ r.raised \in {"", "ValueError"}
               /\ r.raised = "ValueError" <=> one
               /\ (shim.value # _sentinel /\ shim.tb # _sentinel)
                     => r.ret = [value |-> shim.value[1], traceback |-> shim.tb[1]]
               /\ (shim.value = _sentinel /\ shim.tb = _sentinel /\ shim.exc # None)
                     => r.ret = [value |-> shim.exc, traceback |-> excs[shim.exc].kind.traceback]
               /\ (shim.value = _sentinel /\ shim.tb = _sentinel /\ shim.exc = None)
                     => r.ret = [value |-> None, traceback |-> <<>>]

\* _format_exception(e) with e alone: the engine formats e with its own trace.
C12_Witness ==
    /\ shim.op = "_format_exception" /\ shim.pc = "returned"
    /\ shim.exc # None /\ shim.value = _sentinel /\ shim.tb = _sentinel
    /\ shim.extracted.ret.traceback = <<1, 2>>
    /\ shim.by = "engine" /\ Len(shim.ret) >= 4

\* C17: _format_exception_only called with the exception alone is served by
\* the engine: _extract_value_traceback does not raise, the result is
\* list(format_exception_only(type(exc), exc)), and the replaced function of
\* the platform is called only when the formatting itself raises.
C17_ExceptionAloneServedByEngine ==
    (shim.op = "_format_exception_only" /\ shim.pc = "returned" /\ shim.value = _sentinel)
        => /\ shim.extracted.raised = ""
           /\ shim.by = "engine"
           /\ shim.ret = format_exception_only(type_of(shim.exc), shim.exc).ret

----------------------------------------------------------------------------
\* Properties of the write_* methods (SpecWrite).

\* C16: in every write_* method a failing isatty probe, whether the
\* destination has no isatty or isatty raises, gives tty = False and is not
\* propagated, and the destination gets the joined lines in one write.
C16_ProbeFailureRecovered ==
    (file.pc # "idle" /\ file.probe \notin {"tty", "file"})
        => /\ file.pc # "probe_raised"
           /\ file.tty = FALSE
           /\ file.pc = "written" => file.writes = <<Join(file.lines)>>

----------------------------------------------------------------------------
\* Properties of the last-exception slot (SpecLast).

\* C10: get_last_exception, and format_last_exception through it, raise
\* exactly when the slot is unset, which it is until it is first set; with
\* the slot set they work on the stored triple; the engine never writes the
\* slot.
C10_LastExceptionSlot ==
    /\ [][(~got.called /\ got'.called)
            => /\ got'.err = "ValueError" <=> last = <<>>
               /\ last # <<>> => got'.ret = last[1]
               /\ last' = last]_vars
    /\ [][(calls' = calls + 1)
            => /\ fpc' = "raised" <=> last = <<>>
               /\ last # <<>> => /\ fpc' = "running"
                                  /\ Triple(fargs'.type, fargs'.value, fargs'.traceback) = last[1]
               /\ last' = last]_vars
    /\ [][fpc = "running" => last' = last]_vars
    /\ [][last # <<>> => last' # <<>>]_vars

C10_Witness ==
    /\ got.called /\ got.err = ""
    /\ last # <<>> /\ got.ret = last[1] /\ got.ret.value # None
    /\ fpc = "raised"

====
